---- MODULE Spec2Model ----
(***************************************************************************)
(* Communication skills analyzer: the POST /analyze handler of app.py and  *)
(* the scoring pipeline of analyzer.py (CommunicationAnalyzer.analyze and  *)
(* its eight criterion analyzers), with the rubric data of config.py.      *)
(*                                                                         *)
(* Text is a sequence of one-character strings, so that substring tests,   *)
(* lower-casing, tokenization and the word-boundary regex are computed on  *)
(* the characters, as the Python code computes them.  Arithmetic that the  *)
(* code does in floating point is done here on integers by cross           *)
(* multiplication; the one place where IEEE doubles differ from the exact  *)
(* quotient within the ranges explored is noted at _analyze_grammar.       *)
(***************************************************************************)
EXTENDS Integers, Sequences, FiniteSets, TLC

VARIABLES
    tool,               \* self.tool: "None" or "LanguageToolPublic" (analyzer.py:13-17)
    config,             \* the Config values the handlers read
    pc,                 \* position of the request being handled
    request,            \* the JSON body of the POST /analyze request
    transcript,         \* local of analyze_transcript / argument of analyze
    words,              \* analyze: word_tokenize(transcript.lower())
    sentences,          \* analyze: sent_tokenize(transcript)
    total_words,        \* analyze: len(words)
    content_scores,     \* analyze: result of _analyze_content_structure
    speech_rate_score,  \* analyze: result of _analyze_speech_rate
    language_scores,    \* analyze: result of _analyze_language_grammar
    grammar_path,       \* which return of _analyze_grammar produced the score
    clarity_score,      \* analyze: result of _analyze_clarity
    engagement_score,   \* analyze: result of _analyze_engagement
    sentiment_failed,   \* whether polarity_scores raised in _analyze_engagement
    invoked,            \* whether analyzer.analyze was called for this request
    response            \* what analyze_transcript returned: status and body

vars == <<tool, config, pc, request, transcript, words, sentences, total_words,
          content_scores, speech_rate_score, language_scores, grammar_path,
          clarity_score, engagement_score, sentiment_failed, invoked, response>>

None == "None"

\* ---------------------------------------------------------------- bounds
\* A transcript is made of at most MaxChunks phrases of Phrases.
MaxChunks == 2
\* The grammar server reports at most MaxMatches issues.
MaxMatches == 2
\* Word counts explored by the speech-rate specification.
MaxWords == 170

\* ------------------------------------------------------- config.py values
DEFAULT_DURATION_SEC == 52
MAX_TRANSCRIPT_LENGTH == 5000

Config == [DEFAULT_DURATION_SEC |-> DEFAULT_DURATION_SEC,
           MAX_TRANSCRIPT_LENGTH |-> MAX_TRANSCRIPT_LENGTH]

\* Durations the environment variable DEFAULT_DURATION_SEC is set to in the
\* speech-rate specification: the default, and one minute (wpm = word count).
Durations == {DEFAULT_DURATION_SEC, 60}

RUBRIC_WEIGHTS == [salutation |-> 5, keyword_presence |-> 30, flow |-> 5,
                   speech_rate |-> 10, grammar |-> 10, vocabulary |-> 10,
                   clarity |-> 15, engagement |-> 15]

SALUTATION_LEVELS ==
    [excellent |-> [keywords |-> <<<<"e","x","c","i","t","e","d"," ","t","o"," ","i","n","t","r","o","d","u","c","e">>,  \* "excited to introduce"
                                   <<"f","e","e","l","i","n","g"," ","g","r","e","a","t">>,  \* "feeling great"
                                   <<"t","h","r","i","l","l","e","d"," ","t","o"," ","s","h","a","r","e">>,  \* "thrilled to share"
                                   <<"h","o","n","o","r","e","d"," ","t","o"," ","b","e">>>>,  \* "honored to be"
                    score |-> 5],
     good      |-> [keywords |-> <<<<"g","o","o","d"," ","m","o","r","n","i","n","g">>,  \* "good morning"
                                   <<"g","o","o","d"," ","a","f","t","e","r","n","o","o","n">>,  \* "good afternoon"
                                   <<"g","o","o","d"," ","e","v","e","n","i","n","g">>,  \* "good evening"
                                   <<"g","o","o","d"," ","d","a","y">>,  \* "good day"
                                   <<"h","e","l","l","o"," ","e","v","e","r","y","o","n","e">>>>,  \* "hello everyone"
                    score |-> 4],
     normal    |-> [keywords |-> <<<<"h","i">>,  \* "hi"
                                   <<"h","e","l","l","o">>,  \* "hello"
                                   <<"h","e","y">>>>, score |-> 2],  \* "hey"
     none      |-> [score |-> 0]]

\* ------------------------------------------------------------ characters
UpperCase == <<"A","B","C","D","E","F","G","H","I","J","K","L","M",
               "N","O","P","Q","R","S","T","U","V","W","X","Y","Z">>
LowerCase == <<"a","b","c","d","e","f","g","h","i","j","k","l","m",
               "n","o","p","q","r","s","t","u","v","w","x","y","z">>
Digits == {"0","1","2","3","4","5","6","7","8","9"}
UpperSet == {UpperCase[k] : k \in 1..26}
LowerSet == {LowerCase[k] : k \in 1..26}

\* str.lower() on one character
LowerOf == [c \in UpperSet |-> LowerCase[CHOOSE k \in 1..26 : UpperCase[k] = c]]
lower_char(c) == IF c \in UpperSet THEN LowerOf[c] ELSE c
\* str.lower()
lower(s) == [i \in 1..Len(s) |-> lower_char(s[i])]
\* str.isupper() on one character
isupper(c) == c \in UpperSet
\* the regex class \w, and whitespace
IsWordChar(c) == c \in LowerSet \/ c \in UpperSet \/ c \in Digits \/ c = "_"
IsSpace(c) == c = " "

\* Python's `keyword in text`
Contains(keyword, text) ==
    \E i \in 1..(Len(text) - Len(keyword) + 1) :
        \A j \in 1..Len(keyword) : text[i + j - 1] = keyword[j]

\* any(k in text for k in keywords), keywords a sequence
ContainsAny(keywords, text) ==
    \E n \in 1..Len(keywords) : Contains(keywords[n], text)

\* str.strip()
strip(s) ==
    LET keep == {i \in 1..Len(s) : ~IsSpace(s[i])}
    IN IF keep = {} THEN <<>>
       ELSE LET first == CHOOSE i \in keep : \A k \in 1..(i - 1) : IsSpace(s[k])
                last  == CHOOSE i \in keep : \A k \in (i + 1)..Len(s) : IsSpace(s[k])
            IN SubSeq(s, first, last)

\* ------------------------------------------------- tokenizer (nltk calls)
\* nltk.word_tokenize on text without apostrophes, abbreviations or digits
\* groups: a token is a maximal run of word characters, or one punctuation
\* character.
IsTokenStart(t, i) ==
    /\ ~IsSpace(t[i])
    /\ \/ ~IsWordChar(t[i])
       \/ i = 1
       \/ ~IsWordChar(t[i - 1])

TokenEnd(t, i) ==
    IF ~IsWordChar(t[i]) THEN i
    ELSE CHOOSE j \in i..Len(t) :
            /\ j = Len(t) \/ ~IsWordChar(t[j + 1])
            /\ \A k \in i..j : IsWordChar(t[k])

RECURSIVE TokensIn(_, _, _)
TokensIn(t, lo, hi) ==
    IF lo > hi THEN <<>>
    ELSE IF lo = hi
         THEN IF IsTokenStart(t, lo) THEN <<SubSeq(t, lo, TokenEnd(t, lo))>> ELSE <<>>
         ELSE LET mid == (lo + hi) \div 2
              IN TokensIn(t, lo, mid) \o TokensIn(t, mid + 1, hi)

word_tokenize(t) == TokensIn(t, 1, Len(t))

\* nltk.sent_tokenize (punkt) on such text: a sentence ends at '.', '!' or
\* '?' followed by whitespace and more text, and at the end of the text.
IsSentenceBreak(t, i) ==
    /\ t[i] \in {".", "!", "?"}
    /\ i + 1 < Len(t)
    /\ IsSpace(t[i + 1])
    /\ \E k \in (i + 2)..Len(t) : ~IsSpace(t[k])

IsSentenceEnd(t, i) ==
    \/ IsSentenceBreak(t, i)
    \/ /\ ~IsSpace(t[i])
       /\ \A k \in (i + 1)..Len(t) : IsSpace(t[k])

SentenceStart(t, i) ==
    LET breaks == {b \in 1..(i - 1) : IsSentenceBreak(t, b)}
    IN IF breaks = {} THEN 1
       ELSE (CHOOSE b \in breaks : \A c \in breaks : c <= b) + 1

RECURSIVE SentencesIn(_, _, _)
SentencesIn(t, lo, hi) ==
    IF lo > hi THEN <<>>
    ELSE IF lo = hi
         THEN IF IsSentenceEnd(t, lo)
              THEN <<strip(SubSeq(t, SentenceStart(t, lo), lo))>>
              ELSE <<>>
         ELSE LET mid == (lo + hi) \div 2
              IN SentencesIn(t, lo, mid) \o SentencesIn(t, mid + 1, hi)

sent_tokenize(t) == SentencesIn(t, 1, Len(t))

\* len(re.findall(r'\b' + re.escape(filler) + r'\b', text)): every filler
\* begins and ends with a word character and none overlaps itself, so the
\* matches are the occurrences with a non-word character (or the end of
\* the text) on either side.
findall_count(filler, text) ==
    Cardinality({i \in 1..(Len(text) - Len(filler) + 1) :
        /\ \A j \in 1..Len(filler) : text[i + j - 1] = filler[j]
        /\ i = 1 \/ ~IsWordChar(text[i - 1])
        /\ i + Len(filler) > Len(text) \/ ~IsWordChar(text[i + Len(filler)])})

\* len(set(words))
DistinctCount(ws) == Cardinality({ws[i] : i \in 1..Len(ws)})

RECURSIVE filler_total(_, _, _)
\* the loop of _analyze_clarity over the first n filler words
filler_total(fillers, text, n) ==
    IF n = 0 THEN 0
    ELSE filler_total(fillers, text, n - 1) + findall_count(fillers[n], text)

\* ------------------------------------------------ criterion analyzers
\* _analyze_salutation with the tiers tried in ascending rank order
_analyze_salutation_ascending(text) ==
    LET transcript_lower == lower(text)
    IN IF ContainsAny(<<<<"h","i">>,  \* "hi"
                        <<"h","e","l","l","o">>,  \* "hello"
                        <<"h","e","y">>>>, transcript_lower) THEN 2  \* "hey"
       ELSE IF ContainsAny(<<<<"g","o","o","d"," ","m","o","r","n","i","n","g">>,  \* "good morning"
                             <<"g","o","o","d"," ","a","f","t","e","r","n","o","o","n">>,  \* "good afternoon"
                             <<"g","o","o","d"," ","e","v","e","n","i","n","g">>,  \* "good evening"
                             <<"g","o","o","d"," ","d","a","y">>,  \* "good day"
                             <<"h","e","l","l","o"," ","e","v","e","r","y","o","n","e">>>>, transcript_lower) THEN 4  \* "hello everyone"
       ELSE IF ContainsAny(<<<<"e","x","c","i","t","e","d"," ","t","o"," ","i","n","t","r","o","d","u","c","e">>,  \* "excited to introduce"
                             <<"f","e","e","l","i","n","g"," ","g","r","e","a","t">>,  \* "feeling great"
                             <<"t","h","r","i","l","l","e","d"," ","t","o"," ","s","h","a","r","e">>,  \* "thrilled to share"
                             <<"h","o","n","o","r","e","d"," ","t","o"," ","b","e">>>>, transcript_lower) THEN 5  \* "honored to be"
       ELSE 0

\* analyzer.py:75-97
_analyze_salutation(text) ==
    LET transcript_lower == lower(text)
        excellent_keywords == <<<<"e","x","c","i","t","e","d"," ","t","o"," ","i","n","t","r","o","d","u","c","e">>,  \* "excited to introduce"
                                <<"f","e","e","l","i","n","g"," ","g","r","e","a","t">>,  \* "feeling great"
                                <<"t","h","r","i","l","l","e","d"," ","t","o"," ","s","h","a","r","e">>,  \* "thrilled to share"
                                <<"h","o","n","o","r","e","d"," ","t","o"," ","b","e">>>>  \* "honored to be"
        good_keywords == <<<<"g","o","o","d"," ","m","o","r","n","i","n","g">>,  \* "good morning"
                           <<"g","o","o","d"," ","a","f","t","e","r","n","o","o","n">>,  \* "good afternoon"
                           <<"g","o","o","d"," ","e","v","e","n","i","n","g">>,  \* "good evening"
                           <<"g","o","o","d"," ","d","a","y">>,  \* "good day"
                           <<"h","e","l","l","o"," ","e","v","e","r","y","o","n","e">>>>  \* "hello everyone"
        normal_keywords == <<<<"h","i">>,  \* "hi"
                             <<"h","e","l","l","o">>,  \* "hello"
                             <<"h","e","y">>>>  \* "hey"
    IN IF ContainsAny(excellent_keywords, transcript_lower) THEN 5
       ELSE IF ContainsAny(good_keywords, transcript_lower) THEN 4
       ELSE IF ContainsAny(normal_keywords, transcript_lower) THEN 2
       ELSE 0

\* analyzer.py:293-295
_fuzzy_match(keyword, text) == Contains(keyword, text)

RECURSIVE keyword_points(_, _, _, _)
\* the two loops of _analyze_keyword_presence: `each` points for every one
\* of the first n keywords that matches
keyword_points(keywords, text, each, n) ==
    IF n = 0 THEN 0
    ELSE keyword_points(keywords, text, each, n - 1)
         + (IF _fuzzy_match(keywords[n], text) THEN each ELSE 0)

Min(a, b) == IF a <= b THEN a ELSE b

\* analyzer.py:99-117
_analyze_keyword_presence(text) ==
    LET transcript_lower == lower(text)
        must_have_keywords == <<<<"n","a","m","e">>,  \* "name"
                                <<"a","g","e">>,  \* "age"
                                <<"c","l","a","s","s">>,  \* "class"
                                <<"s","c","h","o","o","l">>,  \* "school"
                                <<"f","a","m","i","l","y">>,  \* "family"
                                <<"h","o","b","b","i","e","s">>>>  \* "hobbies"
        good_to_have_keywords == <<<<"f","r","o","m">>,  \* "from"
                                   <<"g","o","a","l">>,  \* "goal"
                                   <<"d","r","e","a","m">>,  \* "dream"
                                   <<"f","u","n"," ","f","a","c","t">>,  \* "fun fact"
                                   <<"u","n","i","q","u","e">>,  \* "unique"
                                   <<"s","t","r","e","n","g","t","h">>,  \* "strength"
                                   <<"a","c","h","i","e","v","e","m","e","n","t">>>>  \* "achievement"
        must_have_score ==
            keyword_points(must_have_keywords, transcript_lower, 4, Len(must_have_keywords))
        good_to_have_score ==
            keyword_points(good_to_have_keywords, transcript_lower, 2,
                           Len(good_to_have_keywords))
    IN must_have_score + Min(good_to_have_score, 10)

\* _analyze_flow with `or` in place of `and`
_analyze_flow_either(sents) ==
    IF Len(sents) < 2 THEN 0
    ELSE IF \/ ContainsAny(<<<<"h","e","l","l","o">>,  \* "hello"
                             <<"h","i">>,  \* "hi"
                             <<"g","o","o","d"," ","m","o","r","n","i","n","g">>,  \* "good morning"
                             <<"g","o","o","d"," ","a","f","t","e","r","n","o","o","n">>,  \* "good afternoon"
                             <<"g","o","o","d"," ","e","v","e","n","i","n","g">>>>, lower(sents[1]))  \* "good evening"
            \/ ContainsAny(<<<<"t","h","a","n","k">>,  \* "thank"
                             <<"t","h","a","n","k","s">>,  \* "thanks"
                             <<"a","p","p","r","e","c","i","a","t","e">>>>, lower(sents[Len(sents)]))  \* "appreciate"
         THEN 5 ELSE 0

\* analyzer.py:119-131
_analyze_flow(sents) ==
    IF Len(sents) < 2 THEN 0
    ELSE LET first_sentence == lower(sents[1])
             last_sentence == lower(sents[Len(sents)])
             has_salutation ==
                 ContainsAny(<<<<"h","e","l","l","o">>,  \* "hello"
                               <<"h","i">>,  \* "hi"
                               <<"g","o","o","d"," ","m","o","r","n","i","n","g">>,  \* "good morning"
                               <<"g","o","o","d"," ","a","f","t","e","r","n","o","o","n">>,  \* "good afternoon"
                               <<"g","o","o","d"," ","e","v","e","n","i","n","g">>>>, first_sentence)  \* "good evening"
             has_closing ==
                 ContainsAny(<<<<"t","h","a","n","k">>,  \* "thank"
                               <<"t","h","a","n","k","s">>,  \* "thanks"
                               <<"a","p","p","r","e","c","i","a","t","e">>>>, last_sentence)  \* "appreciate"
         IN IF has_salutation /\ has_closing THEN 5 ELSE 0

\* analyzer.py:67-73
_analyze_content_structure(text, ws, sents) ==
    [salutation |-> _analyze_salutation(text),
     keyword_presence |-> _analyze_keyword_presence(text),
     flow |-> _analyze_flow(sents)]

\* analyzer.py:133-147.  words_per_minute = (n / duration) * 60; the
\* comparisons are cross-multiplied by the duration, which is positive.
_analyze_speech_rate(n, duration) ==
    LET wpm_times_duration == n * 60
    IN IF wpm_times_duration > 160 * duration THEN 2
       ELSE IF 141 * duration <= wpm_times_duration /\ wpm_times_duration <= 160 * duration
            THEN 6
       ELSE IF 111 * duration <= wpm_times_duration /\ wpm_times_duration <= 140 * duration
            THEN 10
       ELSE IF 81 * duration <= wpm_times_duration /\ wpm_times_duration <= 110 * duration
            THEN 6
       ELSE 2

\* analyzer.py:181-207.  grammar_score = 1 - min(errors_per_100_words / 10, 1)
\* with errors_per_100_words = errors / n * 100 (0 when n = 0), so
\* grammar_score >= t/10 iff 100 * errors <= (10 - t) * n.
_basic_grammar_check(text, n) ==
    LET sents == sent_tokenize(text)
        unterminated == {i \in 1..Len(sents) :
            /\ Len(strip(sents[i])) > 0
            /\ strip(sents[i])[Len(strip(sents[i]))] \notin {".", "!", "?"}}
        uncapitalized == {i \in 1..Len(sents) :
            /\ Len(strip(sents[i])) > 0
            /\ ~isupper(strip(sents[i])[1])}
        common_errors == Cardinality(unterminated) + Cardinality(uncapitalized)
    IN IF n = 0 \/ 100 * common_errors <= 1 * n THEN 10
       ELSE IF 100 * common_errors <= 3 * n THEN 8
       ELSE IF 100 * common_errors <= 5 * n THEN 6
       ELSE 4

\* The outcome of self.tool.check(transcript): it raises, or returns a list
\* of `matches` issues.
CheckOutcomes == {[raises |-> TRUE, matches |-> 0]}
                 \cup {[raises |-> FALSE, matches |-> m] : m \in 0..MaxMatches}

\* analyzer.py:156-179: the return statement that produces the score
_analyze_grammar_path(the_tool, outcome) ==
    IF the_tool = None THEN "basic:tool is None"
    ELSE IF outcome.raises THEN "basic:check raised"
    ELSE "server"

\* analyzer.py:156-179.  In IEEE doubles 1 - (7/100*100)/10 is just below
\* 0.3, so the last threshold is strict when 100 * matches = 7 * n.
_analyze_grammar(the_tool, outcome, text, n) ==
    IF _analyze_grammar_path(the_tool, outcome) # "server"
    THEN _basic_grammar_check(text, n)
    ELSE LET matches == outcome.matches
         IN IF n = 0 \/ 100 * matches <= 1 * n THEN 10
            ELSE IF 100 * matches <= 3 * n THEN 8
            ELSE IF 100 * matches <= 5 * n THEN 6
            ELSE IF 100 * matches < 7 * n THEN 4
            ELSE 2

\* analyzer.py:209-227.  ttr = distinct / total; ttr >= t/10 iff
\* 10 * distinct >= t * total.
_analyze_vocabulary(ws) ==
    IF Len(ws) = 0 THEN 2
    ELSE LET distinct_words == DistinctCount(ws)
             n == Len(ws)
         IN IF 10 * distinct_words >= 9 * n THEN 10
            ELSE IF 10 * distinct_words >= 7 * n THEN 8
            ELSE IF 10 * distinct_words >= 5 * n THEN 6
            ELSE IF 10 * distinct_words >= 3 * n THEN 4
            ELSE 2

\* analyzer.py:149-154
_analyze_language_grammar(the_tool, outcome, text, ws) ==
    [grammar |-> _analyze_grammar(the_tool, outcome, text, Len(ws)),
     vocabulary |-> _analyze_vocabulary(ws)]

\* analyzer.py:229-256.  filler_rate = count / len(words) * 100.
_analyze_clarity(text, ws) ==
    IF Len(ws) = 0 THEN 3
    ELSE LET transcript_lower == lower(text)
             filler_words == <<<<"u","m">>,  \* "um"
                               <<"u","h">>,  \* "uh"
                               <<"l","i","k","e">>,  \* "like"
                               <<"y","o","u"," ","k","n","o","w">>,  \* "you know"
                               <<"s","o">>,  \* "so"
                               <<"a","c","t","u","a","l","l","y">>,  \* "actually"
                               <<"b","a","s","i","c","a","l","l","y">>,  \* "basically"
                               <<"r","i","g","h","t">>,  \* "right"
                               <<"i"," ","m","e","a","n">>,  \* "i mean"
                               <<"w","e","l","l">>,  \* "well"
                               <<"k","i","n","d","a">>,  \* "kinda"
                               <<"s","o","r","t"," ","o","f">>,  \* "sort of"
                               <<"o","k","a","y">>,  \* "okay"
                               <<"h","m","m">>,  \* "hmm"
                               <<"a","h">>>>  \* "ah"
             filler_count == filler_total(filler_words, transcript_lower, Len(filler_words))
             n == Len(ws)
         IN IF 100 * filler_count <= 3 * n THEN 15
            ELSE IF 100 * filler_count <= 6 * n THEN 12
            ELSE IF 100 * filler_count <= 9 * n THEN 9
            ELSE IF 100 * filler_count <= 12 * n THEN 6
            ELSE 3

\* The outcome of polarity_scores(transcript): it raises, or returns a
\* 'pos' proportion, here in hundredths.
PosValues == {0, 30, 50, 70, 90}
SentimentOutcomes == {[raises |-> TRUE, pos |-> 0]}
                     \cup {[raises |-> FALSE, pos |-> p] : p \in PosValues}

\* _analyze_engagement whose handler returns the lowest score, not 9
_analyze_engagement_lowest(outcome) ==
    IF outcome.raises \/ outcome.pos < 30 THEN 3
    ELSE IF outcome.pos >= 90 THEN 15
    ELSE IF outcome.pos >= 70 THEN 12
    ELSE IF outcome.pos >= 50 THEN 9
    ELSE 6

\* analyzer.py:258-276
_analyze_engagement(outcome) ==
    IF outcome.raises THEN 9
    ELSE LET positive_score == outcome.pos
         IN IF positive_score >= 90 THEN 15
            ELSE IF positive_score >= 70 THEN 12
            ELSE IF positive_score >= 50 THEN 9
            ELSE IF positive_score >= 30 THEN 6
            ELSE 3

\* _calculate_overall_score without the min(100, ...)
_calculate_overall_score_unclamped(scores) ==
    scores.salutation + scores.keyword_presence + scores.flow + scores.speech_rate
    + scores.grammar + scores.vocabulary + scores.clarity + scores.engagement

\* analyzer.py:278-291
_calculate_overall_score(scores) ==
    LET total_score == scores.salutation + scores.keyword_presence + scores.flow
                       + scores.speech_rate + scores.grammar + scores.vocabulary
                       + scores.clarity + scores.engagement
    IN Min(100, total_score)

\* analyzer.py:312-323
_get_salutation_feedback(text) ==
    LET transcript_lower == lower(text)
    IN IF ContainsAny(<<<<"e","x","c","i","t","e","d"," ","t","o"," ","i","n","t","r","o","d","u","c","e">>,  \* "excited to introduce"
                        <<"f","e","e","l","i","n","g"," ","g","r","e","a","t">>,  \* "feeling great"
                        <<"t","h","r","i","l","l","e","d"," ","t","o"," ","s","h","a","r","e">>>>,  \* "thrilled to share"
                      transcript_lower)
       THEN "Used excellent level salutation"
       ELSE IF ContainsAny(<<<<"g","o","o","d"," ","m","o","r","n","i","n","g">>,  \* "good morning"
                             <<"g","o","o","d"," ","a","f","t","e","r","n","o","o","n">>,  \* "good afternoon"
                             <<"g","o","o","d"," ","e","v","e","n","i","n","g">>,  \* "good evening"
                             <<"h","e","l","l","o"," ","e","v","e","r","y","o","n","e">>>>, transcript_lower)  \* "hello everyone"
       THEN "Used good level salutation"
       ELSE IF ContainsAny(<<<<"h","i">>,  \* "hi"
                             <<"h","e","l","l","o">>,  \* "hello"
                             <<"h","e","y">>>>, transcript_lower)  \* "hey"
       THEN "Used normal level salutation"
       ELSE "No appropriate salutation found"

\* analyzer.py:297-310: "Score: <score>/<max> - <rationale>" per criterion
_generate_detailed_feedback(the_tool, text, scores) ==
    LET grammar_method == IF the_tool # None THEN "Public Server" ELSE "Basic Check"
    IN [salutation |-> [score |-> scores.salutation, max |-> 5,
                        rationale |-> _get_salutation_feedback(text)],
        keyword_presence |-> [score |-> scores.keyword_presence, max |-> 30,
                              rationale |-> "Includes essential personal details"],
        flow |-> [score |-> scores.flow, max |-> 5,
                  rationale |-> "Proper introduction structure"],
        speech_rate |-> [score |-> scores.speech_rate, max |-> 10,
                         rationale |-> "Appropriate pacing"],
        grammar |-> [score |-> scores.grammar, max |-> 10,
                     rationale |-> "Language accuracy", method |-> grammar_method],
        vocabulary |-> [score |-> scores.vocabulary, max |-> 10,
                        rationale |-> "Word variety"],
        clarity |-> [score |-> scores.clarity, max |-> 15,
                     rationale |-> "Clear expression"],
        engagement |-> [score |-> scores.engagement, max |-> 15,
                        rationale |-> "Positive tone"]]

\* ------------------------------------------------------------- requests
\* "Hello everyone, I am feeling great today. My name is Sam and my age is
\* twelve. I study in class seven at Riverside school, which sits near an
\* old stone bridge. Our family comes from Kerala, where father grows
\* pepper while mother teaches music. Favourite hobbies include painting,
\* chess, cycling plus reading mystery novels. One fun fact about me, I
\* once built a tiny robot using scrap metal. Everybody says patience
\* remains the unique strength that drives each achievement. The goal
\* ahead involves becoming an astronaut, a dream born after watching
\* rockets rise. Thank you for listening."
Introduction == 
    <<"H","e","l","l","o"," ","e","v","e","r","y","o","n","e",","," ","I"," ",
      "a","m"," ","f","e","e","l","i","n","g"," ","g","r","e","a","t"," ","t",
      "o","d","a","y","."," ","M","y"," ","n","a","m","e"," ","i","s"," ","S",
      "a","m"," ","a","n","d"," ","m","y"," ","a","g","e"," ","i","s"," ","t",
      "w","e","l","v","e","."," ","I"," ","s","t","u","d","y"," ","i","n"," ",
      "c","l","a","s","s"," ","s","e","v","e","n"," ","a","t"," ","R","i","v",
      "e","r","s","i","d","e"," ","s","c","h","o","o","l",","," ","w","h","i",
      "c","h"," ","s","i","t","s"," ","n","e","a","r"," ","a","n"," ","o","l",
      "d"," ","s","t","o","n","e"," ","b","r","i","d","g","e","."," ","O","u",
      "r"," ","f","a","m","i","l","y"," ","c","o","m","e","s"," ","f","r","o",
      "m"," ","K","e","r","a","l","a",","," ","w","h","e","r","e"," ","f","a",
      "t","h","e","r"," ","g","r","o","w","s"," ","p","e","p","p","e","r"," ",
      "w","h","i","l","e"," ","m","o","t","h","e","r"," ","t","e","a","c","h",
      "e","s"," ","m","u","s","i","c","."," ","F","a","v","o","u","r","i","t",
      "e"," ","h","o","b","b","i","e","s"," ","i","n","c","l","u","d","e"," ",
      "p","a","i","n","t","i","n","g",","," ","c","h","e","s","s",","," ","c",
      "y","c","l","i","n","g"," ","p","l","u","s"," ","r","e","a","d","i","n",
      "g"," ","m","y","s","t","e","r","y"," ","n","o","v","e","l","s","."," ",
      "O","n","e"," ","f","u","n"," ","f","a","c","t"," ","a","b","o","u","t",
      " ","m","e",","," ","I"," ","o","n","c","e"," ","b","u","i","l","t"," ",
      "a"," ","t","i","n","y"," ","r","o","b","o","t"," ","u","s","i","n","g",
      " ","s","c","r","a","p"," ","m","e","t","a","l","."," ","E","v","e","r",
      "y","b","o","d","y"," ","s","a","y","s"," ","p","a","t","i","e","n","c",
      "e"," ","r","e","m","a","i","n","s"," ","t","h","e"," ","u","n","i","q",
      "u","e"," ","s","t","r","e","n","g","t","h"," ","t","h","a","t"," ","d",
      "r","i","v","e","s"," ","e","a","c","h"," ","a","c","h","i","e","v","e",
      "m","e","n","t","."," ","T","h","e"," ","g","o","a","l"," ","a","h","e",
      "a","d"," ","i","n","v","o","l","v","e","s"," ","b","e","c","o","m","i",
      "n","g"," ","a","n"," ","a","s","t","r","o","n","a","u","t",","," ","a",
      " ","d","r","e","a","m"," ","b","o","r","n"," ","a","f","t","e","r"," ",
      "w","a","t","c","h","i","n","g"," ","r","o","c","k","e","t","s"," ","r",
      "i","s","e","."," ","T","h","a","n","k"," ","y","o","u"," ","f","o","r",
      " ","l","i","s","t","e","n","i","n","g",".">>

\* a transcript of exactly the maximum length
Padding == [i \in 1..MAX_TRANSCRIPT_LENGTH |-> "a"]

Phrases == <<
    <<"H","e","l","l","o"," ","e","v","e","r","y","o","n","e",".">>,  \* "Hello everyone."
    <<"H","o","n","o","r","e","d"," ","t","o"," ","b","e"," ","h","e","r","e",".">>,  \* "Honored to be here."
    <<"G","o","o","d"," ","d","a","y",".">>,  \* "Good day."
    <<"H","i",","," ","m","y"," ","n","a","m","e"," ","i","s"," ","S","a","m",".">>,  \* "Hi, my name is Sam."
    <<"u","m"," ","s","o"," ","t","h","i","s"," ","i","s"," ","l","i","k","e"," ","f","u","n">>,  \* "um so this is like fun"
    <<"T","h","a","n","k","s",".">>,  \* "Thanks."
    Introduction,
    Padding >>

RECURSIVE JoinPhrases(_, _)
\* the first n phrases of choice, separated by one space
JoinPhrases(choice, n) ==
    IF n = 0 THEN <<>>
    ELSE IF n = 1 THEN Phrases[choice[1]]
    ELSE JoinPhrases(choice, n - 1) \o <<" ">> \o Phrases[choice[n]]

Transcripts ==
    {JoinPhrases(choice, Len(choice)) :
        choice \in UNION {[1..n -> 1..Len(Phrases)] : n \in 0..MaxChunks}}

\* The JSON bodies posted: not a JSON object (request.get_json() gives no
\* dict), an object without the 'transcript' key, an object with it.
Requests ==
    {[is_object |-> FALSE, has_transcript |-> FALSE, transcript |-> <<>>],
     [is_object |-> TRUE, has_transcript |-> FALSE, transcript |-> <<>>]}
    \cup {[is_object |-> TRUE, has_transcript |-> TRUE, transcript |-> t] :
            t \in Transcripts}

NoScores == [unset |-> TRUE]
NoResponse == [status |-> 0, body |-> [unset |-> TRUE]]

\* ----------------------------------------------------------------- Init
\* after create_app(): the analyzer is constructed, with or without the
\* LanguageTool server (analyzer.py:13-17); no request is being handled.
Init ==
    /\ tool \in {None, "LanguageToolPublic"}
    /\ config = Config
    /\ pc = "idle"
    /\ request = [is_object |-> FALSE, has_transcript |-> FALSE, transcript |-> <<>>]
    /\ transcript = <<>>
    /\ words = <<>>
    /\ sentences = <<>>
    /\ total_words = 0
    /\ content_scores = NoScores
    /\ speech_rate_score = 0
    /\ language_scores = NoScores
    /\ grammar_path = None
    /\ clarity_score = 0
    /\ engagement_score = 0
    /\ sentiment_failed = FALSE
    /\ invoked = FALSE
    /\ response = NoResponse

\* -------------------------------------------------------------- actions
\* app.py:19-20: a POST /analyze request arrives
Receive(body) ==
    /\ pc = "idle"
    /\ request' = body
    /\ pc' = "handling"
    /\ UNCHANGED <<tool, config, transcript, words, sentences, total_words,
                   content_scores, speech_rate_score, language_scores, grammar_path,
                   clarity_score, engagement_score, sentiment_failed, invoked, response>>

\* jsonify({'error': ...}), status
ErrorResponse(status, message) == [status |-> status, body |-> [error |-> message]]

\* data.get('transcript', '')
GetTranscript(data) == IF data.has_transcript THEN data.transcript ELSE <<>>

\* BoundaryCheck without the length check
BoundaryCheck_no_limit(data, cfg) ==
    IF Len(GetTranscript(data)) = 0 THEN "No transcript provided" ELSE "ok"

\* app.py:25-31: the two checks made before the analyzer is called
BoundaryCheck(data, cfg) ==
    IF Len(GetTranscript(data)) = 0 THEN "No transcript provided"
    ELSE IF Len(GetTranscript(data)) > cfg.MAX_TRANSCRIPT_LENGTH THEN "Transcript too long"
    ELSE "ok"

\* app.py:22-23 raise (data is no dict), caught at app.py:36-38
GetJsonRaises ==
    /\ pc = "handling"
    /\ ~request.is_object
    /\ response' = ErrorResponse(500, "Internal server error")
    /\ pc' = "responded"
    /\ UNCHANGED <<tool, config, request, transcript, words, sentences, total_words,
                   content_scores, speech_rate_score, language_scores, grammar_path,
                   clarity_score, engagement_score, sentiment_failed, invoked>>

\* app.py:25-26
RejectEmpty ==
    /\ pc = "handling"
    /\ request.is_object
    /\ BoundaryCheck(request, config) = "No transcript provided"
    /\ transcript' = GetTranscript(request)
    /\ response' = ErrorResponse(400, "No transcript provided")
    /\ pc' = "responded"
    /\ UNCHANGED <<tool, config, request, words, sentences, total_words,
                   content_scores, speech_rate_score, language_scores, grammar_path,
                   clarity_score, engagement_score, sentiment_failed, invoked>>

\* app.py:28-31
RejectTooLong ==
    /\ pc = "handling"
    /\ request.is_object
    /\ BoundaryCheck(request, config) = "Transcript too long"
    /\ transcript' = GetTranscript(request)
    /\ response' = ErrorResponse(400, "Transcript too long")
    /\ pc' = "responded"
    /\ UNCHANGED <<tool, config, request, words, sentences, total_words,
                   content_scores, speech_rate_score, language_scores, grammar_path,
                   clarity_score, engagement_score, sentiment_failed, invoked>>

\* app.py:33: both checks passed, analyzer.analyze(transcript) is called
CallAnalyze ==
    /\ pc = "handling"
    /\ request.is_object
    /\ BoundaryCheck(request, config) = "ok"
    /\ transcript' = GetTranscript(request)
    /\ invoked' = TRUE
    /\ pc' = "analyze"
    /\ UNCHANGED <<tool, config, request, words, sentences, total_words,
                   content_scores, speech_rate_score, language_scores, grammar_path,
                   clarity_score, engagement_score, sentiment_failed, response>>

\* analyzer.py:36-38
Tokenize ==
    /\ pc = "analyze"
    /\ words' = word_tokenize(lower(transcript))
    /\ sentences' = sent_tokenize(transcript)
    /\ total_words' = Len(words')
    /\ pc' = "content"
    /\ UNCHANGED <<tool, config, request, transcript, content_scores,
                   speech_rate_score, language_scores, grammar_path, clarity_score,
                   engagement_score, sentiment_failed, invoked, response>>

\* analyzer.py:36-37 raise (the tokenizer data is missing); nothing in
\* analyze catches it, app.py:36-38 does
TokenizeRaises ==
    /\ pc = "analyze"
    /\ response' = ErrorResponse(500, "Internal server error")
    /\ pc' = "responded"
    /\ UNCHANGED <<tool, config, request, transcript, words, sentences, total_words,
                   content_scores, speech_rate_score, language_scores, grammar_path,
                   clarity_score, engagement_score, sentiment_failed, invoked>>

\* analyzer.py:41
AnalyzeContentStructure ==
    /\ pc = "content"
    /\ content_scores' = _analyze_content_structure(transcript, words, sentences)
    /\ pc' = "speech"
    /\ UNCHANGED <<tool, config, request, transcript, words, sentences, total_words,
                   speech_rate_score, language_scores, grammar_path, clarity_score,
                   engagement_score, sentiment_failed, invoked, response>>

\* analyzer.py:42
AnalyzeSpeechRate ==
    /\ pc = "speech"
    /\ speech_rate_score' = _analyze_speech_rate(total_words, config.DEFAULT_DURATION_SEC)
    /\ pc' = "language"
    /\ UNCHANGED <<tool, config, request, transcript, words, sentences, total_words,
                   content_scores, language_scores, grammar_path, clarity_score,
                   engagement_score, sentiment_failed, invoked, response>>

\* analyzer.py:43
AnalyzeLanguageGrammar(outcome) ==
    /\ pc = "language"
    /\ language_scores' = _analyze_language_grammar(tool, outcome, transcript, words)
    /\ grammar_path' = _analyze_grammar_path(tool, outcome)
    /\ pc' = "clarity"
    /\ UNCHANGED <<tool, config, request, transcript, words, sentences, total_words,
                   content_scores, speech_rate_score, clarity_score,
                   engagement_score, sentiment_failed, invoked, response>>

\* analyzer.py:44
AnalyzeClarity ==
    /\ pc = "clarity"
    /\ clarity_score' = _analyze_clarity(transcript, words)
    /\ pc' = "engagement"
    /\ UNCHANGED <<tool, config, request, transcript, words, sentences, total_words,
                   content_scores, speech_rate_score, language_scores, grammar_path,
                   engagement_score, sentiment_failed, invoked, response>>

\* analyzer.py:45
AnalyzeEngagement(outcome) ==
    /\ pc = "engagement"
    /\ engagement_score' = _analyze_engagement(outcome)
    /\ sentiment_failed' = outcome.raises
    /\ pc' = "combine"
    /\ UNCHANGED <<tool, config, request, transcript, words, sentences, total_words,
                   content_scores, speech_rate_score, language_scores, grammar_path,
                   clarity_score, invoked, response>>

\* analyzer.py:48-54: {**content_scores, 'speech_rate': ..., **language_scores, ...}
CombineScores(content, speech_rate, language, clarity, engagement) ==
    [salutation |-> content.salutation,
     keyword_presence |-> content.keyword_presence,
     flow |-> content.flow,
     speech_rate |-> speech_rate,
     grammar |-> language.grammar,
     vocabulary |-> language.vocabulary,
     clarity |-> clarity,
     engagement |-> engagement]

\* analyzer.py:59-65
AnalysisResult(the_tool, text, scores, n_words, n_sentences) ==
    [overall_score |-> _calculate_overall_score(scores),
     criterion_scores |-> scores,
     detailed_feedback |-> _generate_detailed_feedback(the_tool, text, scores),
     word_count |-> n_words,
     sentence_count |-> n_sentences]

\* analyzer.py:47-65 and app.py:34: the result is built and returned as JSON
Return ==
    /\ pc = "combine"
    /\ response' =
         [status |-> 200,
          body |-> AnalysisResult(tool, transcript,
                      CombineScores(content_scores, speech_rate_score, language_scores,
                                    clarity_score, engagement_score),
                      total_words, Len(sentences))]
    /\ pc' = "responded"
    /\ UNCHANGED <<tool, config, request, transcript, words, sentences, total_words,
                   content_scores, speech_rate_score, language_scores, grammar_path,
                   clarity_score, engagement_score, sentiment_failed, invoked>>

\* the response has been sent and the handler's locals are gone; the server
\* waits for the next request
Complete ==
    /\ pc = "responded"
    /\ pc' = "idle"
    /\ request' = [is_object |-> FALSE, has_transcript |-> FALSE, transcript |-> <<>>]
    /\ transcript' = <<>>
    /\ words' = <<>>
    /\ sentences' = <<>>
    /\ total_words' = 0
    /\ content_scores' = NoScores
    /\ speech_rate_score' = 0
    /\ language_scores' = NoScores
    /\ grammar_path' = None
    /\ clarity_score' = 0
    /\ engagement_score' = 0
    /\ sentiment_failed' = FALSE
    /\ invoked' = FALSE
    /\ response' = NoResponse
    /\ UNCHANGED <<tool, config>>

Next ==
    \/ \E body \in Requests : Receive(body)
    \/ GetJsonRaises
    \/ RejectEmpty
    \/ RejectTooLong
    \/ CallAnalyze
    \/ Tokenize
    \/ TokenizeRaises
    \/ AnalyzeContentStructure
    \/ AnalyzeSpeechRate
    \/ \E outcome \in CheckOutcomes : AnalyzeLanguageGrammar(outcome)
    \/ AnalyzeClarity
    \/ \E outcome \in SentimentOutcomes : AnalyzeEngagement(outcome)
    \/ Return
    \/ Complete

Spec == Init /\ [][Next]_vars

\* ---------------------------------------------- speech-rate specification
\* _analyze_speech_rate applied to every word count up to MaxWords, under
\* each configured duration.
InitRate ==
    /\ tool = None
    /\ config \in {[Config EXCEPT !.DEFAULT_DURATION_SEC = d] : d \in Durations}
    /\ pc = "speech"
    /\ request = [is_object |-> FALSE, has_transcript |-> FALSE, transcript |-> <<>>]
    /\ transcript = <<>>
    /\ words = <<>>
    /\ sentences = <<>>
    /\ total_words \in 0..MaxWords
    /\ content_scores = NoScores
    /\ speech_rate_score = 0
    /\ language_scores = NoScores
    /\ grammar_path = None
    /\ clarity_score = 0
    /\ engagement_score = 0
    /\ sentiment_failed = FALSE
    /\ invoked = TRUE
    /\ response = NoResponse

NextRate == AnalyzeSpeechRate

SpecRate == InitRate /\ [][NextRate]_vars

\* =================================================================
\* Properties
\* =================================================================
EightKeys == {"salutation", "keyword_presence", "flow", "speech_rate", "grammar",
              "vocabulary", "clarity", "engagement"}

\* a complete result has been returned for the request
Succeeded == pc = "responded" /\ response.status = 200

SumOfScores(s) ==
    s.salutation + s.keyword_presence + s.flow + s.speech_rate + s.grammar
    + s.vocabulary + s.clarity + s.engagement

SumOfMaxima == SumOfScores(RUBRIC_WEIGHTS)

\* C1: in every returned result, overall_score is min(100, sum of the eight
\* criterion scores of the same result) and is an integer in 0..100.
C1_OverallIsClampedSum ==
    Succeeded =>
        LET total == SumOfScores(response.body.criterion_scores)
        IN /\ response.body.overall_score = (IF total > 100 THEN 100 ELSE total)
           /\ response.body.overall_score \in 0..100

\* C1 witness: a result whose criterion scores add up to more than 100 and
\* whose overall score is 100.
C1_Witness ==
    /\ Succeeded
    /\ SumOfScores(response.body.criterion_scores) > 100
    /\ response.body.overall_score = 100

\* C2: every returned result has exactly the eight criterion keys, each
\* value in its documented set and at most the criterion's maximum
\* (keyword_presence <= 30).
C2_ScoresWithinDocumentedRanges ==
    Succeeded =>
        LET s == response.body.criterion_scores
        IN /\ DOMAIN s = EightKeys
           /\ s.salutation \in {0, 2, 4, 5}
           /\ s.keyword_presence <= 30
           /\ s.flow \in {0, 5}
           /\ s.speech_rate \in {2, 6, 10}
           /\ s.grammar \in {2, 4, 6, 8, 10}
           /\ s.vocabulary \in {2, 4, 6, 8, 10}
           /\ s.clarity \in {3, 6, 9, 12, 15}
           /\ s.engagement \in {3, 6, 9, 12, 15}
           /\ \A k \in EightKeys : s[k] <= RUBRIC_WEIGHTS[k]

\* the transcript contains a keyword of that configured salutation tier
TierMatches(level, text) == ContainsAny(SALUTATION_LEVELS[level].keywords, lower(text))

\* C3: the salutation score is that of the highest configured tier with a
\* keyword in the transcript: 5 for excellent, else 4 for good, else 2 for
\* normal, else 0.
C3_SalutationHighestTier ==
    pc = "speech" =>
        content_scores.salutation =
            IF TierMatches("excellent", transcript) THEN SALUTATION_LEVELS.excellent.score
            ELSE IF TierMatches("good", transcript) THEN SALUTATION_LEVELS.good.score
            ELSE IF TierMatches("normal", transcript) THEN SALUTATION_LEVELS.normal.score
            ELSE SALUTATION_LEVELS.none.score

\* C3 witness: a transcript with an excellent-tier and a normal-tier keyword
\* has been scored 5.
C3_Witness ==
    /\ pc = "speech"
    /\ TierMatches("excellent", transcript)
    /\ TierMatches("normal", transcript)
    /\ content_scores.salutation = 5

\* The documented speech-rate bands, in words per minute, with their scores;
\* too_fast is everything above 160.
SpeechRateBands ==
    {[name |-> "too_slow", low |-> 0, high |-> 80, score |-> 2],
     [name |-> "slow", low |-> 81, high |-> 110, score |-> 6],
     [name |-> "ideal", low |-> 111, high |-> 140, score |-> 10],
     [name |-> "fast", low |-> 141, high |-> 160, score |-> 6]}

\* n words in `duration` seconds is a rate inside the band
InBand(band, n, duration) ==
    band.low * duration <= n * 60 /\ n * 60 <= band.high * duration
InTooFast(n, duration) == n * 60 > 160 * duration

\* C4: every word count gives a rate in exactly one of the five bands, and
\* the speech-rate score is that band's score.
C4_RateInExactlyOneBand ==
    pc = "language" =>
        LET d == config.DEFAULT_DURATION_SEC
            hit == {b \in SpeechRateBands : InBand(b, total_words, d)}
        IN \/ /\ InTooFast(total_words, d)
              /\ hit = {}
              /\ speech_rate_score = 2
           \/ /\ ~InTooFast(total_words, d)
              /\ Cardinality(hit) = 1
              /\ \A b \in hit : speech_rate_score = b.score

HasGreeting(sentence) ==
    ContainsAny(<<<<"h","e","l","l","o">>,  \* "hello"
                  <<"h","i">>,  \* "hi"
                  <<"g","o","o","d"," ","m","o","r","n","i","n","g">>,  \* "good morning"
                  <<"g","o","o","d"," ","a","f","t","e","r","n","o","o","n">>,  \* "good afternoon"
                  <<"g","o","o","d"," ","e","v","e","n","i","n","g">>>>,  \* "good evening"
                lower(sentence))
HasClosing(sentence) ==
    ContainsAny(<<<<"t","h","a","n","k">>,  \* "thank"
                  <<"t","h","a","n","k","s">>,  \* "thanks"
                  <<"a","p","p","r","e","c","i","a","t","e">>>>, lower(sentence))  \* "appreciate"

\* C5: flow is 0 with fewer than two sentences; otherwise it is 5 exactly
\* when the first sentence has a greeting and the last one a closing, and 0
\* when only one or neither holds.
C5_FlowIsBinary ==
    pc = "speech" =>
        /\ content_scores.flow \in {0, 5}
        /\ Len(sentences) < 2 => content_scores.flow = 0
        /\ Len(sentences) >= 2 =>
              (content_scores.flow = 5 <=>
                  HasGreeting(sentences[1]) /\ HasClosing(sentences[Len(sentences)]))

\* C5 witness: a transcript of two sentences, only the first of which
\* qualifies, has been scored 0.
C5_Witness ==
    /\ pc = "speech"
    /\ Len(sentences) = 2
    /\ HasGreeting(sentences[1])
    /\ ~HasClosing(sentences[2])
    /\ content_scores.flow = 0

UsedBasicCheck == grammar_path \in {"basic:tool is None", "basic:check raised"}

\* C6: when the grammar server is missing or its check raises, the grammar
\* score is the basic check's and lies in {10,8,6,4}; when the sentiment call
\* raises, engagement is 9; and the request still ends with a complete
\* result.
C6_DegradedCriteriaDoNotAbort ==
    /\ (pc = "clarity" /\ UsedBasicCheck) =>
          /\ language_scores.grammar = _basic_grammar_check(transcript, total_words)
          /\ language_scores.grammar \in {10, 8, 6, 4}
    /\ (pc = "clarity" /\ (tool = None)) => UsedBasicCheck
    /\ (pc = "combine" /\ sentiment_failed) => engagement_score = 9
    /\ (pc = "responded" /\ (UsedBasicCheck \/ sentiment_failed)) =>
          /\ response.status = 200
          /\ DOMAIN response.body.criterion_scores = EightKeys
          /\ response.body.criterion_scores.grammar = language_scores.grammar
          /\ UsedBasicCheck => response.body.criterion_scores.grammar \in {10, 8, 6, 4}
          /\ sentiment_failed => response.body.criterion_scores.engagement = 9
          /\ response.body.overall_score \in 0..100

\* C6 witness: a complete result returned although the grammar check and
\* the sentiment call both raised.
C6_Witness ==
    /\ Succeeded
    /\ grammar_path = "basic:check raised"
    /\ sentiment_failed

ResultKeys == {"overall_score", "criterion_scores", "detailed_feedback",
               "word_count", "sentence_count"}

C8_FeedbackNamesGrammarPath ==
    Succeeded =>
        (response.body.detailed_feedback.grammar.method = "Basic Check" <=> UsedBasicCheck)

\* C9: the tier named in the salutation feedback is the tier whose score
\* was returned.
C9_FeedbackNamesScoredTier ==
    Succeeded =>
        LET said == response.body.detailed_feedback.salutation.rationale
            score == response.body.criterion_scores.salutation
        IN /\ said = "Used excellent level salutation" <=> score = 5
           /\ said = "Used good level salutation" <=> score = 4
           /\ said = "Used normal level salutation" <=> score = 2
           /\ said = "No appropriate salutation found" <=> score = 0

\* C10: the sum of the eight criterion scores never exceeds the sum of the
\* maxima, 100, so the clamp never changes it.
C10_ClampNeverApplies ==
    Succeeded =>
        /\ SumOfMaxima = 100
        /\ SumOfScores(response.body.criterion_scores) <= SumOfMaxima
        /\ response.body.overall_score = SumOfScores(response.body.criterion_scores)
====
